---- MODULE Spec2Model ----
(***************************************************************************)
(* Model of the binary provisioning engine of aexvir/harness               *)
(* (package binary: Binary descriptor, Template, Origins).                 *)
(*                                                                         *)
(* Strings are sequences of tokens.  Versions and subprocess output are    *)
(* spelled one character per token; path strings use the token "/" for     *)
(* os.PathSeparator and one token per path component.                      *)
(***************************************************************************)
EXTENDS Integers, Sequences, FiniteSets, TLC

VARIABLES
    bin,      \* the Binary descriptor built by New
    fs,       \* the filesystem: cleaned path -> file
    world,    \* what is outside the program: server, go toolchain, disk faults
    calls,    \* number of Ensure/Install calls made so far
    last,     \* record of the most recent call
    prev,     \* record of the call before it
    changed,  \* TRUE when the outside changed fs or world since the last call
    procs     \* the goroutines inside Ensure: position and what each has seen

vars == <<bin, fs, world, calls, last, prev, changed, procs>>

----------------------------------------------------------------------------
(* Bounds *)

MaxCalls == 2

\* longest format string handed to Template.Resolve, in tokens
MaxFormatLen == 3

\* most tasks handed to one Harness.Execute
MaxTasks == 3

\* most binaries handed to one Provision
MaxBinaries == 2

----------------------------------------------------------------------------
(* strings *)

Str(a) == <<a>>

HasPrefix(s, p) == Len(s) >= Len(p) /\ SubSeq(s, 1, Len(p)) = p

\* strings.TrimPrefix: removes p once when s starts with it
TrimPrefix(s, p) == IF HasPrefix(s, p) THEN SubSeq(s, Len(p) + 1, Len(s)) ELSE s

\* bytes.Contains
Contains(s, sub) ==
    \E i \in 1..(Len(s) - Len(sub) + 1) : SubSeq(s, i, i + Len(sub) - 1) = sub

\* strings.Split(s, sep) for a one-token separator
RECURSIVE Split(_, _)
Split(s, sep) ==
    IF \A i \in 1..Len(s) : s[i] # sep
    THEN <<s>>
    ELSE LET i == CHOOSE k \in 1..Len(s) :
                      s[k] = sep /\ \A j \in 1..(k - 1) : s[j] # sep
         IN  <<SubSeq(s, 1, i - 1)>> \o Split(SubSeq(s, i + 1, Len(s)), sep)

\* fmt.Sprintf(format, arg) for a format with "%s" verbs and one string operand
Sprintf(format, arg) ==
    IF \E i \in 1..Len(format) : format[i] = "%s"
    THEN LET i == CHOOSE k \in 1..Len(format) :
                      format[k] = "%s" /\ \A j \in 1..(k - 1) : format[j] # "%s"
             rest == SubSeq(format, i + 1, Len(format))
         IN  SubSeq(format, 1, i - 1) \o arg
                 \o [k \in 1..Len(rest) |->
                        IF rest[k] = "%s" THEN "%!s(MISSING)" ELSE rest[k]]
    ELSE format \o <<"%!(EXTRA string=">> \o arg \o <<")">>

----------------------------------------------------------------------------
(* paths *)

Sep == "/"

RECURSIVE JoinComps(_)
JoinComps(cs) ==
    IF Len(cs) = 0 THEN <<>>
    ELSE IF Len(cs) = 1 THEN cs[1]
    ELSE cs[1] \o <<Sep>> \o JoinComps(Tail(cs))

\* what filepath.Clean does with one component c, given the components kept
CleanStep(out, c, rooted) ==
    IF c = <<>> \/ c = <<".">> THEN out
    ELSE IF c # <<"..">> THEN Append(out, c)
    ELSE IF Len(out) > 0 /\ out[Len(out)] # <<"..">> THEN SubSeq(out, 1, Len(out) - 1)
    ELSE IF rooted THEN out
    ELSE Append(out, c)

\* the lexical processing of filepath.Clean on the components of a path
RECURSIVE CleanComps(_, _, _)
CleanComps(cs, out, rooted) ==
    IF Len(cs) = 0 THEN out
    ELSE CleanComps(Tail(cs), CleanStep(out, Head(cs), rooted), rooted)

IsRooted(p) == Len(p) > 0 /\ p[1] = Sep

CleanOf(cs, rooted) ==
    IF rooted THEN <<Sep>> \o JoinComps(cs)
    ELSE IF Len(cs) = 0 THEN <<".">>
    ELSE JoinComps(cs)

\* filepath.Clean
Clean(p) == CleanOf(CleanComps(Split(p, Sep), <<>>, IsRooted(p)), IsRooted(p))

\* filepath.Join of two elements
Join(a, b) ==
    IF a = <<>> /\ b = <<>> THEN <<>>
    ELSE Clean(IF a = <<>> THEN b ELSE IF b = <<>> THEN a ELSE a \o <<Sep>> \o b)

BaseOf(cs, ne) ==
    IF ne = {} THEN <<Sep>>
    ELSE cs[CHOOSE i \in ne : \A j \in ne : j <= i]

NonEmptyAt(cs) == {i \in 1..Len(cs) : cs[i] # <<>>}

\* filepath.Base
Base(p) ==
    IF p = <<>> THEN <<".">>
    ELSE BaseOf(Split(p, Sep), NonEmptyAt(Split(p, Sep)))

DirOf(cs) ==
    IF Len(cs) <= 1 THEN <<".">>
    ELSE IF \A i \in 1..(Len(cs) - 1) : cs[i] = <<>> THEN <<Sep>>
    ELSE Clean(JoinComps(SubSeq(cs, 1, Len(cs) - 1)))

\* filepath.Dir
Dir(p) == DirOf(Split(p, Sep))

----------------------------------------------------------------------------
(* errors: an error is the token sequence of its message, nil is empty *)

Nil == <<>>

\* fmt.Errorf("<msg>: %w", cause)
Wrap(msg, cause) == msg \o <<": ">> \o cause

----------------------------------------------------------------------------
(* Template *)

\* the placeholder tokens of a format string and the Template field each names
Placeholders ==
    {<<"{{.GOOS}}", "GOOS">>, <<"{{.GOARCH}}", "GOARCH">>,
     <<"{{.Directory}}", "Directory">>, <<"{{.Name}}", "Name">>,
     <<"{{.Cmd}}", "Cmd">>, <<"{{.Version}}", "Version">>,
     <<"{{.Extension}}", "Extension">>,
     <<"{{.ArchiveExtension}}", "ArchiveExtension">>}

IsPlaceholder(tok) == \E p \in Placeholders : p[1] = tok

FieldOf(tok) == (CHOOSE p \in Placeholders : p[1] = tok)[2]

\* "{{" opens an action that is never closed: template.Parse fails
UnclosedAction == "{{"

\* an action naming a field that Template does not have: Execute fails
UndefinedField == "{{.Bogus}}"

ParseFails(format) == \E i \in 1..Len(format) : format[i] = UnclosedAction

ExecFails(format) == \E i \in 1..Len(format) : format[i] = UndefinedField

\* a rendering that keeps the field values and loses the text between them
RECURSIVE RenderDropsText(_, _)
RenderDropsText(t, format) ==
    IF Len(format) = 0 THEN <<>>
    ELSE (IF IsPlaceholder(Head(format)) THEN t[FieldOf(Head(format))] ELSE <<>>)
             \o RenderDropsText(t, Tail(format))

RECURSIVE Render(_, _)
Render(t, format) ==
    IF Len(format) = 0 THEN <<>>
    ELSE LET tok == Head(format)
             txt == IF IsPlaceholder(tok) THEN t[FieldOf(tok)] ELSE <<tok>>
         IN  txt \o Render(t, Tail(format))

\* the text before the first action that cannot be evaluated
BeforeUndefined(format) ==
    SubSeq(format, 1,
           (CHOOSE k \in 1..Len(format) :
                format[k] = UndefinedField /\ \A j \in 1..(k - 1) : format[j] # UndefinedField) - 1)

\* a Resolve that hands back what Execute wrote before it failed
ResolveKeepsPartial(t, format) ==
    IF ParseFails(format)
    THEN [s |-> <<>>, err |-> <<"template: bin: unclosed action">>]
    ELSE IF ExecFails(format)
    THEN [s |-> Render(t, BeforeUndefined(format)),
          err |-> <<"template: bin: can't evaluate field">>]
    ELSE [s |-> Render(t, format), err |-> Nil]

\* Template.Resolve
Resolve(t, format) ==
    IF ParseFails(format)
    THEN [s |-> <<>>, err |-> <<"template: bin: unclosed action">>]
    ELSE IF ExecFails(format)
    THEN [s |-> <<>>, err |-> <<"template: bin: can't evaluate field">>]
    ELSE [s |-> Render(t, format), err |-> Nil]

\* MustResolve given what Resolve returned: panics on its error
MustResolveOf(r) == [s |-> r.s, panic |-> r.err # Nil]

\* Template.MustResolve
MustResolve(t, format) == MustResolveOf(Resolve(t, format))

----------------------------------------------------------------------------
(* Binary and its options *)

SkipVersionCheck == <<>>

Latest == <<"l", "a", "t", "e", "s", "t">>

\* a Go map as a set of <<key, value>> pairs with distinct keys
Lookup(mapping, k) == (CHOOSE kv \in mapping : kv[1] = k)[2]
HasKey(mapping, k) == \E kv \in mapping : kv[1] = k

WithGOOSMapping(b, mapping) ==
    IF HasKey(mapping, b.template.GOOS)
    THEN [b EXCEPT !.template.GOOS = Lookup(mapping, b.template.GOOS)]
    ELSE b

WithGOARCHMapping(b, mapping) ==
    IF HasKey(mapping, b.template.GOARCH)
    THEN [b EXCEPT !.template.GOARCH = Lookup(mapping, b.template.GOARCH)]
    ELSE b

WithGOOSArchiveExtensionMapping(b, mapping) ==
    IF HasKey(mapping, b.template.GOOS)
    THEN [b EXCEPT !.template.ArchiveExtension = Lookup(mapping, b.template.GOOS)]
    ELSE b

WithVersionCmd(b, format) ==
    IF format = SkipVersionCheck
    THEN [b EXCEPT !.versioncmd = SkipVersionCheck]
    ELSE [b EXCEPT !.versioncmd = Sprintf(format, b.template.Cmd)]

ApplyOption(b, o) ==
    CASE o.opt = "WithGOOSMapping" -> WithGOOSMapping(b, o.mapping)
      [] o.opt = "WithGOARCHMapping" -> WithGOARCHMapping(b, o.mapping)
      [] o.opt = "WithGOOSArchiveExtensionMapping" ->
             WithGOOSArchiveExtensionMapping(b, o.mapping)
      [] o.opt = "WithVersionCmd" -> WithVersionCmd(b, o.format)

RECURSIVE ApplyOptions(_, _)
ApplyOptions(b, options) ==
    IF Len(options) = 0 THEN b
    ELSE ApplyOptions(ApplyOption(b, Head(options)), Tail(options))

\* New, on a platform whose runtime.GOOS and runtime.GOARCH are goos and goarch
New(command, version, origin, options, goos, goarch) ==
    LET extension == IF goos = <<"windows">> THEN <<".exe">> ELSE <<>>
        bindir == <<".", Sep, "bin">>
        cmdQualifiedPath == Join(bindir, command) \o extension
        b == [command    |-> command,
              directory  |-> bindir,
              version    |-> version,
              versioncmd |-> Sprintf(<<"%s", " ", "--version">>, cmdQualifiedPath),
              origin     |-> origin,
              template   |-> [GOOS             |-> goos,
                              GOARCH           |-> goarch,
                              Directory        |-> bindir,
                              Name             |-> command,
                              Cmd              |-> cmdQualifiedPath,
                              Version          |-> version,
                              Extension        |-> extension,
                              ArchiveExtension |-> <<".tar.gz">>]]
    IN  ApplyOptions(b, options)

Name(b) == b.template.Name

BinPath(b) == b.template.Cmd

----------------------------------------------------------------------------
(* filesystem: a function from cleaned paths to files.  "." always exists *)

ModeExec == 493      \* 0o755
ModeDefault == 420   \* 0o666 under umask 022

\* the bytes of an executable: what running it prints and whether it exits 0
Exe(ok, out) == [format |-> "exe", whole |-> TRUE, ok |-> ok, out |-> out,
                 entries |-> <<>>]

\* the bytes of an archive (or any other data) with the entries a reader finds
Data(format, entries, whole) ==
    [format |-> format, whole |-> whole, ok |-> FALSE, out |-> <<>>,
     entries |-> entries]

Empty == Data("other", <<>>, TRUE)

\* what is on disk when a copy of content stops before its end
Truncated(content) == [content EXCEPT !.whole = FALSE]

File(mode, content) == [kind |-> "file", mode |-> mode, content |-> content]

Directory == [kind |-> "dir", mode |-> ModeExec, content |-> Empty]

Ev(op, arg) == [op |-> op, arg |-> arg]

\* what is at a cleaned path
Has(f, c) == c = <<".">> \/ c \in DOMAIN f

HasDir(f, c) == c = <<".">> \/ (c \in DOMAIN f /\ f[c].kind = "dir")

HasFile(f, c) == c \in DOMAIN f /\ f[c].kind = "file"

\* os.Stat(p) returns a nil error
Exists(f, p) == Has(f, Clean(p))

IsDir(f, p) == HasDir(f, Clean(p))

IsFile(f, p) == HasFile(f, Clean(p))

AncestorsOf(cs) == {JoinComps(SubSeq(cs, 1, k)) : k \in 1..Len(cs)} \ {<<>>, <<".">>}

\* the path and each of its ancestors, cleaned
Ancestors(p) == AncestorsOf(Split(Clean(p), Sep))

MkdirAllOf(f, as, p) ==
    IF \E a \in as : HasFile(f, a)
    THEN [fs |-> f, err |-> <<"mkdir ">> \o p \o <<": not a directory">>]
    ELSE [fs  |-> [a \in DOMAIN f \cup as |-> IF a \in DOMAIN f THEN f[a] ELSE Directory],
          err |-> Nil]

\* os.MkdirAll(p, 0o755)
MkdirAll(f, p) == MkdirAllOf(f, Ancestors(p), p)

CreateAt(f, c, d, p) ==
    IF HasDir(f, c)
    THEN [fs |-> f, err |-> <<"open ">> \o p \o <<": is a directory">>]
    ELSE IF ~HasDir(f, d)
    THEN [fs |-> f, err |-> <<"open ">> \o p \o <<": no such file or directory">>]
    ELSE [fs  |-> [a \in DOMAIN f \cup {c} |->
                      IF a # c THEN f[a]
                      ELSE File(IF c \in DOMAIN f THEN f[c].mode ELSE ModeDefault, Empty)],
          err |-> Nil]

\* os.Create(p): creates the file, or truncates it and keeps its mode
Create(f, p) == CreateAt(f, Clean(p), Dir(Clean(p)), p)

\* os.Chmod(p, mode) on an existing path
Chmod(f, p, mode) == [f EXCEPT ![Clean(p)].mode = mode]

\* io.Copy(out, data) into the open file at p; fails part-way when broken
Copy(f, p, content, broken) ==
    [fs  |-> [f EXCEPT ![Clean(p)].content =
                           IF broken THEN Truncated(content) ELSE content],
     err |-> IF broken THEN <<"unexpected EOF">> ELSE Nil]

RemoveAt(f, c) == [a \in DOMAIN f \ {c} |-> f[a]]

\* os.Remove(p) of a file
Remove(f, p) == RemoveAt(f, Clean(p))

RunAt(f, c) ==
    IF HasFile(f, c) /\ f[c].mode = ModeExec /\ f[c].content.format = "exe"
          /\ f[c].content.whole
    THEN [ok |-> f[c].content.ok, out |-> f[c].content.out]
    ELSE [ok |-> FALSE, out |-> <<>>]

\* exec.Command(args[0], args[1:]...).CombinedOutput(): a name without a
\* separator is looked up on PATH, anything else is a file to run
CombinedOutput(f, w, args) ==
    IF \A i \in 1..Len(args[1]) : args[1][i] # Sep
    THEN [ok |-> w.pathrun.ok, out |-> w.pathrun.out]
    ELSE RunAt(f, Clean(args[1]))

----------------------------------------------------------------------------
(* Origins.  Install returns the filesystem it leaves, its error, the      *)
(* operations it performed in order, and whether it panicked.              *)

Itoa(n) ==
    CASE n = 199 -> "199" [] n = 200 -> "200" [] n = 299 -> "299"
      [] n = 300 -> "300" [] n = 404 -> "404" [] n = 500 -> "500"
      [] OTHER -> "0"

Outcome(f, err, log) == [fs |-> f, err |-> err, log |-> log, panic |-> FALSE]

\* the step shared by the three Install methods: os.MkdirAll(template.Directory)
\* and the error returned when it fails
MkdirFailed(mk, t) ==
    Outcome(mk.fs,
            Wrap(<<"failed to create destination folder ">> \o t.Directory, mk.err),
            <<Ev("mkdir", t.Directory)>>)

\* remotebin.Install from io.Copy on
RemotebinCopied(cp, log) == Outcome(cp.fs, cp.err, log)

\* remotebin.Install from os.Create on
RemotebinCreated(cr, t, w, log) ==
    IF cr.err # Nil
    THEN Outcome(cr.fs, Wrap(<<"failed to create output file ">> \o t.Cmd, cr.err), log)
    ELSE RemotebinCopied(Copy(Chmod(cr.fs, t.Cmd, ModeExec), t.Cmd, w.body, w.copyfail),
                         log \o <<Ev("chmod", t.Cmd), Ev("write", t.Cmd)>>)

\* remotebin.Install taking whatever status the server answers with
RemotebinGetAnyStatus(url, f, t, w, log) ==
    IF w.http # "ok"
    THEN Outcome(f, Wrap(<<"failed to download binary">>, <<"dial tcp: refused">>), log)
    ELSE RemotebinCreated(Create(f, t.Cmd), t, w, Append(log, Ev("create", t.Cmd)))

\* remotebin.Install from http.Get on
RemotebinGet(url, f, t, w, log) ==
    IF w.http # "ok"
    THEN Outcome(f, Wrap(<<"failed to download binary">>, <<"dial tcp: refused">>), log)
    ELSE IF w.status < 200 \/ w.status >= 300
    THEN Outcome(f,
                 <<"received unexpected response when downloading binary: http",
                   Itoa(w.status)>>,
                 log)
    ELSE RemotebinCreated(Create(f, t.Cmd), t, w, Append(log, Ev("create", t.Cmd)))

\* remotebin.Install from Template.Resolve on
RemotebinResolved(url, f, t, w) ==
    IF url.err # Nil
    THEN Outcome(f, Wrap(<<"failed to resolve URL">>, url.err), <<Ev("mkdir", t.Directory)>>)
    ELSE RemotebinGet(url.s, f, t, w, <<Ev("mkdir", t.Directory), Ev("get", url.s)>>)

\* remotebin.Install going on after a failed os.MkdirAll
RemotebinMadeIgnoresError(mk, o, t, w) ==
    RemotebinResolved(Resolve(t, o.urlformat), mk.fs, t, w)

RemotebinMade(mk, o, t, w) ==
    IF mk.err # Nil THEN MkdirFailed(mk, t)
    ELSE RemotebinResolved(Resolve(t, o.urlformat), mk.fs, t, w)

\* RemoteBinaryDownload(url).Install(template)
RemotebinInstall(o, t, f, w) == RemotebinMade(MkdirAll(f, t.Directory), o, t, w)

\* the executable that "go install pkg@version" leaves in GOBIN is named after
\* the last element of the package path
GoInstallTarget(o, t) == Join(t.Directory, Base(o.pkg)) \o t.Extension

\* gopkg.Install from cmd.Run on
GopkgRun(tgt, f, t, w) ==
    IF ~w.gook \/ HasDir(f, tgt)
    THEN Outcome(f, Wrap(<<"unable to install executable">>, <<"exit status 1">>),
                 <<Ev("mkdir", t.Directory), Ev("exec", <<"go">>)>>)
    ELSE Outcome([a \in DOMAIN f \cup {tgt} |->
                     IF a = tgt THEN File(ModeExec, w.body) ELSE f[a]],
                 Nil,
                 <<Ev("mkdir", t.Directory), Ev("exec", <<"go">>), Ev("write", tgt)>>)

GopkgMade(mk, o, t, w) ==
    IF mk.err # Nil THEN MkdirFailed(mk, t)
    ELSE GopkgRun(GoInstallTarget(o, t), mk.fs, t, w)

\* GoBinary(pkg).Install(template)
GopkgInstall(o, t, f, w) == GopkgMade(MkdirAll(f, t.Directory), o, t, w)

\* an Origin supplied by the caller, as MockOrigin: returns what it was told to
MockInstall(o, t, f, w) == Outcome(f, o.ret, <<>>)

\* download from io.Copy on
DownloadCopied(cp, destination, log) ==
    IF cp.err # Nil
    THEN Outcome(cp.fs, Wrap(<<"failed to copy data to file ">> \o destination, cp.err), log)
    ELSE Outcome(cp.fs, Nil, log)

\* download from os.Create on
DownloadCreated(cr, destination, w, log) ==
    IF cr.err # Nil
    THEN Outcome(cr.fs, Wrap(<<"failed to create file ">> \o destination, cr.err), log)
    ELSE DownloadCopied(Copy(cr.fs, destination, w.body, w.copyfail), destination,
                        Append(log, Ev("write", destination)))

\* a download that asks the server a second time when the first request fails
DownloadTwice(url, destination, f, w) ==
    IF Exists(f, destination)
    THEN Outcome(f, Nil, <<Ev("stat", destination)>>)
    ELSE IF w.http # "ok"
    THEN Outcome(f, Wrap(<<"failed to download file">>, <<"dial tcp: refused">>),
                 <<Ev("stat", destination), Ev("get", url), Ev("get", url)>>)
    ELSE DownloadCreated(Create(f, destination), destination, w,
                         <<Ev("stat", destination), Ev("get", url),
                           Ev("create", destination)>>)

\* download asking the server whether or not the file is already there
DownloadAlways(url, destination, f, w) ==
    IF w.http # "ok"
    THEN Outcome(f, Wrap(<<"failed to download file">>, <<"dial tcp: refused">>),
                 <<Ev("stat", destination), Ev("get", url)>>)
    ELSE DownloadCreated(Create(f, destination), destination, w,
                         <<Ev("stat", destination), Ev("get", url),
                           Ev("create", destination)>>)

\* download(url, destination)
Download(url, destination, f, w) ==
    IF Exists(f, destination)
    THEN Outcome(f, Nil, <<Ev("stat", destination)>>)
    ELSE IF w.http # "ok"
    THEN Outcome(f, Wrap(<<"failed to download file">>, <<"dial tcp: refused">>),
                 <<Ev("stat", destination), Ev("get", url)>>)
    ELSE DownloadCreated(Create(f, destination), destination, w,
                         <<Ev("stat", destination), Ev("get", url),
                           Ev("create", destination)>>)

\* a selector that lets every entry through under its own name
ProcessorIdentity(mapping, path) == <<path>>

\* the selector remotearchive.Install hands to extract; <<>> stands for a nil
\* result, <<name>> for a pointer to name
Processor(mapping, path) ==
    IF mapping = {} THEN <<path>>
    ELSE IF HasKey(mapping, path) THEN <<Lookup(mapping, path)>>
    ELSE <<>>

\* a regular-file entry from io.Copy on
EntryCopied(cp, target, log) ==
    IF cp.err # Nil
    THEN Outcome(cp.fs, Wrap(<<"failed to copy data to file ">> \o target, cp.err), log)
    ELSE Outcome(cp.fs, Nil, log)

\* a regular-file entry written without the os.Chmod
EntryCreatedNoChmod(cr, target, entry, log) ==
    IF cr.err # Nil
    THEN Outcome(cr.fs, Wrap(<<"failed to create file ">> \o target, cr.err), log)
    ELSE EntryCopied(Copy(cr.fs, target, entry.content, entry.broken),
                     target, Append(log, Ev("write", target)))

\* a regular-file entry from os.Create on
EntryCreated(cr, target, entry, log) ==
    IF cr.err # Nil
    THEN Outcome(cr.fs, Wrap(<<"failed to create file ">> \o target, cr.err), log)
    ELSE EntryCopied(Copy(Chmod(cr.fs, target, ModeExec), target, entry.content,
                          entry.broken),
                     target, log \o <<Ev("chmod", target), Ev("write", target)>>)

\* an entry from os.MkdirAll on: of the target for a directory entry, of its
\* parent for a regular file
EntryMade(mk, dir, target, entry, log) ==
    IF mk.err # Nil
    THEN Outcome(mk.fs, Wrap(<<"failed to create directory ">> \o dir, mk.err), log)
    ELSE IF entry.type = "dir" THEN Outcome(mk.fs, Nil, log)
    ELSE EntryCreated(Create(mk.fs, target), target, entry,
                      Append(log, Ev("create", target)))

EntryAt(dir, target, entry, f, log) ==
    EntryMade(MkdirAll(f, dir), dir, target, entry, Append(log, Ev("mkdir", dir)))

\* the body of the entry loop of untar (and, with zip, of unzip) for one
\* entry; processed is what the processor returned for its name.  untar skips
\* an entry that is neither a directory nor a regular file, unzip writes
\* whatever is not a directory as a file
ExtractEntry(entry, processed, destination, f, log, zip) ==
    IF processed = <<>> THEN Outcome(f, Nil, log)
    ELSE IF entry.type = "dir"
    THEN EntryAt(Join(destination, processed[1]), Join(destination, processed[1]),
                 entry, f, log)
    ELSE IF entry.type = "reg" \/ zip
    THEN EntryAt(Dir(Join(destination, processed[1])), Join(destination, processed[1]),
                 entry, f, log)
    ELSE Outcome(f, Nil, log)

\* the outcome of one more entry when an earlier error is remembered
KeepFirstError(r, n) == [n EXCEPT !.err = IF r.err # Nil THEN r.err ELSE n.err]

\* an entry loop that goes on after an error and reports the first one
RECURSIVE ExtractEntriesAll(_, _, _, _, _)
ExtractEntriesAll(entries, destination, mapping, r, zip) ==
    IF Len(entries) = 0 THEN r
    ELSE ExtractEntriesAll(Tail(entries), destination, mapping,
                           KeepFirstError(r,
                               ExtractEntry(Head(entries),
                                            Processor(mapping, Head(entries).name),
                                            destination, r.fs, r.log, zip)),
                           zip)

\* the entry loop of untar and unzip: the first error ends it
RECURSIVE ExtractEntries(_, _, _, _, _)
ExtractEntries(entries, destination, mapping, r, zip) ==
    IF Len(entries) = 0 \/ r.err # Nil THEN r
    ELSE ExtractEntries(Tail(entries), destination, mapping,
                        ExtractEntry(Head(entries), Processor(mapping, Head(entries).name),
                                     destination, r.fs, r.log, zip),
                        zip)

\* untar(file, destination, processor); a stream that stops short makes
\* reader.Next fail
Untar(content, destination, mapping, f, log) ==
    IF ~content.whole THEN Outcome(f, <<"unexpected EOF">>, log)
    ELSE ExtractEntries(content.entries, destination, mapping, Outcome(f, Nil, log), FALSE)

\* unzip(file, size, destination, processor); a file that stops short has no
\* central directory and zip.NewReader fails
Unzip(content, destination, mapping, f, log) ==
    IF ~content.whole
    THEN Outcome(f, Wrap(<<"failed to create zip reader">>,
                         <<"zip: not a valid zip file">>), log)
    ELSE ExtractEntries(content.entries, destination, mapping, Outcome(f, Nil, log), TRUE)

\* http.DetectContentType on the first 512 bytes of the file
DetectContentType(content) ==
    CASE content.format = "gzip" -> "application/x-gzip"
      [] content.format = "zip"  -> "application/zip"
      [] OTHER -> "application/octet-stream"

\* extract without its deferred os.Remove
ExtractDeferredKeeps(r, compressed) == r

\* the deferred os.Remove(compressed) of extract
ExtractDeferred(r, compressed) ==
    [r EXCEPT !.fs = Remove(r.fs, compressed),
              !.log = Append(r.log, Ev("remove", compressed))]

\* extract from the format switch on
ExtractSniffed(mime, content, destination, mapping, f, log) ==
    CASE mime = "application/x-gzip" -> Untar(content, destination, mapping, f, log)
      [] mime = "application/zip"    -> Unzip(content, destination, mapping, f, log)
      [] OTHER -> Outcome(f, <<"unsupported format: ", mime>>, log)

\* extract(compressed, destination, processor); the deferred os.Remove runs on
\* every return after the file was opened
Extract(compressed, destination, mapping, f) ==
    IF ~IsFile(f, compressed)
    THEN Outcome(f, Wrap(<<"failed to open compressed file">>,
                         <<"no such file or directory">>), <<Ev("open", compressed)>>)
    ELSE ExtractDeferred(
             ExtractSniffed(DetectContentType(f[Clean(compressed)].content),
                            f[Clean(compressed)].content, destination, mapping, f,
                            <<Ev("open", compressed)>>),
             compressed)

\* the mapping of remotearchive.Install with both sides resolved
ResolvedMapping(o, t) == {<<Resolve(t, kv[1]).s, Resolve(t, kv[2]).s>> : kv \in o.binaries}

MappingPanics(o, t) ==
    \E kv \in o.binaries : Resolve(t, kv[1]).err # Nil \/ Resolve(t, kv[2]).err # Nil

Relog(r, log) == [r EXCEPT !.log = log \o r.log]

\* remotearchive.Install from download on
RemotearchiveDownloaded(dl, compressed, o, t) ==
    IF dl.err # Nil
    THEN Outcome(dl.fs, Wrap(<<"failed to download file">>, dl.err),
                 <<Ev("mkdir", t.Directory)>> \o dl.log)
    ELSE IF MappingPanics(o, t)
    THEN [fs |-> dl.fs, err |-> <<"panic">>, log |-> <<Ev("mkdir", t.Directory)>> \o dl.log,
          panic |-> TRUE]
    ELSE Relog(Extract(compressed, t.Directory, ResolvedMapping(o, t), dl.fs),
               <<Ev("mkdir", t.Directory)>> \o dl.log)

\* remotearchive.Install from Template.Resolve on
RemotearchiveResolved(url, f, o, t, w) ==
    IF url.err # Nil
    THEN Outcome(f, Wrap(<<"failed to resolve URL">>, url.err), <<Ev("mkdir", t.Directory)>>)
    ELSE RemotearchiveDownloaded(Download(url.s, Join(t.Directory, Base(url.s)), f, w),
                                 Join(t.Directory, Base(url.s)), o, t)

RemotearchiveMade(mk, o, t, w) ==
    IF mk.err # Nil THEN MkdirFailed(mk, t)
    ELSE RemotearchiveResolved(Resolve(t, o.urlformat), mk.fs, o, t, w)

\* RemoteArchiveDownload(url, binaries).Install(template)
RemotearchiveInstall(o, t, f, w) == RemotearchiveMade(MkdirAll(f, t.Directory), o, t, w)

\* Origin.Install, dispatched on the origin's type
OriginInstall(o, t, f, w) ==
    CASE o.kind = "gopkg"         -> GopkgInstall(o, t, f, w)
      [] o.kind = "remotebin"     -> RemotebinInstall(o, t, f, w)
      [] o.kind = "remotearchive" -> RemotearchiveInstall(o, t, f, w)
      [] o.kind = "mock"          -> MockInstall(o, t, f, w)

----------------------------------------------------------------------------
(* Binary.Ensure.  A call returns the filesystem it leaves, the error it   *)
(* returns (ret), the operations performed in order (log), the Origin      *)
(* installs made with their argument and result (installs) and the         *)
(* outcomes of the version-check subprocesses it ran (runs).               *)

Result(f, ret, log, installs, runs, panic) ==
    [fs |-> f, ret |-> ret, log |-> log, installs |-> installs, runs |-> runs,
     panic |-> panic]

\* Install as the specification words it: the Origin's error wrapped with the
\* binary's name
InstallWrapsName(b, f, w) ==
    LET r == OriginInstall(b.origin, b.template, f, w)
    IN  Result(r.fs,
               IF r.err = Nil THEN Nil
               ELSE Wrap(<<"failed to install ">> \o b.template.Name, r.err),
               <<Ev("install", b.template.Name)>> \o r.log,
               <<[template |-> b.template, ret |-> r.err]>>, <<>>, r.panic)

\* Binary.Install
Install(b, f, w) ==
    LET r == OriginInstall(b.origin, b.template, f, w)
    IN  Result(r.fs, r.err, <<Ev("install", b.template.Name)>> \o r.log,
               <<[template |-> b.template, ret |-> r.err]>>, <<>>, r.panic)

\* Binary.isInstalled
isInstalled(b, f) == Exists(f, b.template.Cmd)

\* isExpectedVersion without the "latest" shortcut
isExpectedVersionChecksLatest(b, f, w) ==
    IF b.versioncmd = SkipVersionCheck
    THEN [ok |-> TRUE, runs |-> <<>>, log |-> <<>>]
    ELSE LET semver == TrimPrefix(b.version, <<"v">>)
             args   == Split(b.versioncmd, " ")
             run    == CombinedOutput(f, w, args)
         IN  [ok   |-> run.ok /\ Contains(run.out, semver),
              runs |-> <<run>>,
              log  |-> <<Ev("exec", args[1])>>]

\* isExpectedVersion answering "not confirmed" when the check is disabled
isExpectedVersionSkipIsFalse(b, f, w) ==
    IF b.version = Latest
    THEN [ok |-> TRUE, runs |-> <<>>, log |-> <<>>]
    ELSE IF b.versioncmd = SkipVersionCheck
    THEN [ok |-> FALSE, runs |-> <<>>, log |-> <<>>]
    ELSE LET semver == TrimPrefix(b.version, <<"v">>)
             args   == Split(b.versioncmd, " ")
             run    == CombinedOutput(f, w, args)
         IN  [ok   |-> run.ok /\ Contains(run.out, semver),
              runs |-> <<run>>,
              log  |-> <<Ev("exec", args[1])>>]

\* strings.TrimLeft(s, "v") in place of TrimPrefix: every leading "v" goes
RECURSIVE TrimLeftV(_)
TrimLeftV(s) == IF HasPrefix(s, <<"v">>) THEN TrimLeftV(Tail(s)) ELSE s

\* isExpectedVersion stripping every leading "v"
isExpectedVersionTrimsAll(b, f, w) ==
    IF b.version = Latest
    THEN [ok |-> TRUE, runs |-> <<>>, log |-> <<>>]
    ELSE IF b.versioncmd = SkipVersionCheck
    THEN [ok |-> TRUE, runs |-> <<>>, log |-> <<>>]
    ELSE LET semver == TrimLeftV(b.version)
             args   == Split(b.versioncmd, " ")
             run    == CombinedOutput(f, w, args)
         IN  [ok   |-> run.ok /\ Contains(run.out, semver),
              runs |-> <<run>>,
              log  |-> <<Ev("exec", args[1])>>]

\* Binary.isExpectedVersion: ok is the value returned, runs the subprocesses run
isExpectedVersion(b, f, w) ==
    IF b.version = Latest
    THEN [ok |-> TRUE, runs |-> <<>>, log |-> <<>>]
    ELSE IF b.versioncmd = SkipVersionCheck
    THEN [ok |-> TRUE, runs |-> <<>>, log |-> <<>>]
    ELSE LET semver == TrimPrefix(b.version, <<"v">>)
             args   == Split(b.versioncmd, " ")
             run    == CombinedOutput(f, w, args)
         IN  [ok   |-> run.ok /\ Contains(run.out, semver),
              runs |-> <<run>>,
              log  |-> <<Ev("exec", args[1])>>]

\* Ensure that installs whatever it finds
EnsureAlwaysInstalls(b, f, w) ==
    LET i == Install(b, f, w)
    IN  [i EXCEPT !.log = <<Ev("stat", b.template.Cmd)>> \o i.log]

\* Ensure that is content with any file at the executable path
EnsureIgnoresVersion(b, f, w) ==
    LET st == <<Ev("stat", b.template.Cmd)>> IN
    IF isInstalled(b, f)
    THEN Result(f, Nil, st, <<>>, <<>>, FALSE)
    ELSE LET i == Install(b, f, w)
         IN  [i EXCEPT !.log = st \o i.log]

\* Ensure that reports a failed version-check subprocess to its caller
EnsurePropagatesCheckFailure(b, f, w) ==
    LET st == <<Ev("stat", b.template.Cmd)>> IN
    IF isInstalled(b, f)
    THEN LET v == isExpectedVersion(b, f, w) IN
         IF v.ok
         THEN Result(f, Nil, st \o v.log, <<>>, v.runs, FALSE)
         ELSE IF Len(v.runs) > 0 /\ ~v.runs[1].ok
         THEN Result(f, <<"version check failed">>, st \o v.log, <<>>, v.runs, FALSE)
         ELSE LET i == Install(b, f, w)
              IN  [i EXCEPT !.log = st \o v.log \o i.log, !.runs = v.runs]
    ELSE LET i == Install(b, f, w)
         IN  [i EXCEPT !.log = st \o i.log]

\* Binary.Ensure after the version guard
EnsureInstalled(b, f, w) ==
    LET st == <<Ev("stat", b.template.Cmd)>> IN
    IF isInstalled(b, f)
    THEN LET v == isExpectedVersion(b, f, w) IN
         IF v.ok
         THEN Result(f, Nil, st \o v.log, <<>>, v.runs, FALSE)
         ELSE LET i == Install(b, f, w)
              IN  [i EXCEPT !.log = st \o v.log \o i.log, !.runs = v.runs]
    ELSE LET i == Install(b, f, w)
         IN  [i EXCEPT !.log = st \o i.log]

\* Ensure without the guard on an empty version
EnsureNoVersionGuard(b, f, w) == EnsureInstalled(b, f, w)

\* Binary.Ensure
Ensure(b, f, w) ==
    IF b.version = <<>>
    THEN Result(f, <<"version must be set">>, <<>>, <<>>, <<>>, FALSE)
    ELSE EnsureInstalled(b, f, w)

----------------------------------------------------------------------------
(* inputs *)

Commands == {<<"tool">>}

Versions == {<<>>, Latest, <<"1">>, <<"v", "1">>, <<"v", "v", "1">>}

GOOSes == {<<"linux">>, <<"windows">>}

GOARCHes == {<<"amd64">>}

\* what an executable found upstream or on disk does when asked its version
Artifacts ==
    {Exe(TRUE, <<"1">>), Exe(TRUE, <<"v", "1">>), Exe(TRUE, <<"2">>),
     Exe(FALSE, <<"1">>)}

\* an archive entry: its name, type, the permissions recorded for it, and data
Entry(name, type, mode, content) ==
    [name |-> name, type |-> type, mode |-> mode, content |-> content,
     broken |-> FALSE]

\* an entry whose data cannot be read to its end
Damaged(entry) == [entry EXCEPT !.broken = TRUE]

\* the entry lists of the archives a server may send: a tree, a single
\* executable, one with a damaged entry in the middle, one whose second entry
\* needs a directory where the first put a file, one whose second entry is a
\* file where the first made a directory, and one whose entry names a path
\* above the destination
ArchiveEntries ==
    {<<Entry(<<"pkg", Sep>>, "dir", ModeExec, Empty),
       Entry(<<"pkg", Sep, "tool">>, "reg", ModeDefault, Exe(TRUE, <<"1">>)),
       Entry(<<"README">>, "reg", ModeDefault, Empty)>>,
     <<Entry(<<"tool">>, "reg", ModeExec, Exe(TRUE, <<"v", "1">>))>>,
     <<Entry(<<"tool">>, "reg", ModeExec, Exe(TRUE, <<"1">>)),
       Damaged(Entry(<<"LICENSE">>, "reg", ModeDefault, Empty)),
       Entry(<<"README">>, "reg", ModeDefault, Empty)>>,
     <<Entry(<<"pkg">>, "reg", ModeDefault, Empty),
       Entry(<<"pkg", Sep, "tool">>, "reg", ModeExec, Exe(TRUE, <<"1">>)),
       Entry(<<"README">>, "reg", ModeDefault, Empty)>>,
     <<Entry(<<"pkg", Sep>>, "dir", ModeExec, Empty),
       Entry(<<"pkg">>, "reg", ModeDefault, Empty),
       Entry(<<"README">>, "reg", ModeDefault, Empty)>>,
     <<Entry(<<"..", Sep, "evil">>, "reg", ModeExec, Exe(TRUE, <<"1">>))>>}

Archives ==
    {Data("gzip", es, TRUE) : es \in ArchiveEntries}
        \cup {Data("zip", es, TRUE) : es \in ArchiveEntries}

OptionNone == [opt |-> "WithVersionCmd", mapping |-> {}, format |-> <<>>]

VersionCmdOption(format) == [OptionNone EXCEPT !.format = format]

OptionLists ==
    {<<>>,
     <<VersionCmdOption(SkipVersionCheck)>>,
     <<VersionCmdOption(<<"echo", " ", "%s">>)>>}

OriginNone == [kind |-> "mock", pkg |-> <<>>, urlformat |-> <<>>, binaries |-> {},
               ret |-> Nil]

GoBinary(pkg) == [OriginNone EXCEPT !.kind = "gopkg", !.pkg = pkg]

RemoteBinaryDownload(url) == [OriginNone EXCEPT !.kind = "remotebin", !.urlformat = url]

RemoteArchiveDownload(url, binaries) ==
    [OriginNone EXCEPT !.kind = "remotearchive", !.urlformat = url,
                       !.binaries = binaries]

MockOrigin(ret) == [OriginNone EXCEPT !.ret = ret]

Origins ==
    {MockOrigin(Nil), MockOrigin(<<"boom">>),
     GoBinary(<<"example.com", Sep, "cmd", Sep, "tool">>),
     GoBinary(<<"example.com", Sep, "cmd", Sep, "other">>),
     RemoteBinaryDownload(<<"http://h", Sep, "{{.Name}}", "-", "{{.Version}}">>),
     RemoteArchiveDownload(<<"http://h", Sep, "{{.Name}}", "{{.ArchiveExtension}}">>, {}),
     RemoteArchiveDownload(<<"http://h", Sep, "{{.Name}}", "{{.ArchiveExtension}}">>,
                           {<<<<"pkg", Sep, "{{.Name}}">>, <<"{{.Name}}", "{{.Extension}}">>>>}),
     RemoteArchiveDownload(<<"http://h", Sep, "{{.Name}}", "{{.ArchiveExtension}}">>,
                           {<<<<"pkg", Sep, "{{.Name}}">>, <<"renamed">>>>})}

Statuses == {199, 200, 299, 300, 404}

\* the outside as the given origin can observe it: all well with some artifact
\* upstream, or one thing wrong
Worlds(o) ==
    LET quiet == [http |-> "ok", status |-> 200, body |-> Exe(TRUE, <<"1">>),
                  copyfail |-> FALSE, gook |-> TRUE,
                  pathrun |-> [ok |-> TRUE, out |-> <<"1">>]]
        faults(bodies) ==
            {[quiet EXCEPT !.body = a] : a \in bodies}
                \cup {[quiet EXCEPT !.http = "neterr"]}
                \cup {[quiet EXCEPT !.status = st, !.body = Data("other", <<>>, TRUE)] :
                         st \in Statuses \ {200}}
                \cup {[quiet EXCEPT !.copyfail = TRUE, !.body = a] : a \in bodies}
    IN  CASE o.kind = "mock" -> {quiet}
          [] o.kind = "gopkg" ->
                 {[quiet EXCEPT !.body = a] : a \in Artifacts}
                     \cup {[quiet EXCEPT !.gook = FALSE]}
          [] o.kind = "remotebin" -> faults(Artifacts)
          [] o.kind = "remotearchive" -> faults(Archives)

EmptyFS == [a \in {} |-> Directory]

\* where remotearchive.Install keeps the archive it downloads
ArchivePath(b) ==
    Join(b.template.Directory, Base(Resolve(b.template, b.origin.urlformat).s))

\* an archive left in the destination directory by an earlier run
CachedArchive ==
    Data("gzip", <<Entry(<<"tool">>, "reg", ModeExec, Exe(TRUE, <<"2">>))>>, TRUE)

CachedFS(b) ==
    [a \in Ancestors(ArchivePath(b)) |->
        IF a = Clean(ArchivePath(b)) THEN File(ModeDefault, CachedArchive) ELSE Directory]

\* the filesystems a descriptor may find: nothing, the executable already in
\* place, a file at its path that is not executable, a regular file where the
\* destination directory should be, or an archive downloaded before
InitialFS(b) ==
    {EmptyFS}
        \cup {[a \in Ancestors(b.template.Cmd) |->
                  IF a = Clean(b.template.Cmd) THEN File(ModeExec, c) ELSE Directory] :
                 c \in Artifacts}
        \cup {[a \in Ancestors(b.template.Cmd) |->
                  IF a = Clean(b.template.Cmd)
                  THEN File(ModeDefault, Exe(TRUE, <<"2">>)) ELSE Directory]}
        \cup {[a \in {Clean(b.template.Directory)} |-> File(ModeDefault, Empty)]}
        \cup (IF b.origin.kind = "remotearchive" THEN {CachedFS(b)} ELSE {})

----------------------------------------------------------------------------
(* the state machine: the caller calls Ensure or Install on the descriptor, *)
(* and the outside may change between calls                                *)

NoCall == [op |-> "none", ret |-> Nil, log |-> <<>>, installs |-> <<>>,
           runs |-> <<>>, panic |-> FALSE, pre |-> EmptyFS, changed |-> FALSE,
           world |-> <<>>]

Start(b, f, w) ==
    /\ bin = b
    /\ fs = f
    /\ world = w
    /\ calls = 0
    /\ last = NoCall
    /\ prev = NoCall
    /\ changed = FALSE
    /\ procs = <<>>

\* every version, version command and platform, over the plainer origins
InitVersions ==
    \E command \in Commands, version \in Versions, options \in OptionLists,
       goos \in GOOSes, goarch \in GOARCHes,
       origin \in {o \in Origins : o.kind \in {"mock", "gopkg"}} :
        LET b == New(command, version, origin, options, goos, goarch) IN
        \E f \in InitialFS(b) :
            Start(b, f, CHOOSE w \in Worlds(origin) : w.gook /\ w.body = Exe(TRUE, <<"1">>))

\* every origin and everything that can go wrong outside, over the plainer
\* descriptors
InitOrigins ==
    \E command \in Commands, version \in {Latest, <<"v", "1">>},
       options \in {<<>>, <<VersionCmdOption(SkipVersionCheck)>>},
       goos \in {<<"linux">>}, goarch \in GOARCHes, origin \in Origins :
        LET b == New(command, version, origin, options, goos, goarch) IN
        \E f \in InitialFS(b), w \in Worlds(origin) :
            /\ IsFile(f, BinPath(b)) => f[Clean(BinPath(b))].content = Exe(TRUE, <<"2">>)
            /\ Start(b, f, w)

Init == InitVersions \/ InitOrigins

Record(op, r) ==
    [op |-> op, ret |-> r.ret, log |-> r.log, installs |-> r.installs,
     runs |-> r.runs, panic |-> r.panic, pre |-> fs, changed |-> changed,
     world |-> world]

EnsureCall ==
    /\ calls < MaxCalls
    /\ LET r == Ensure(bin, fs, world) IN
        /\ fs' = r.fs
        /\ last' = Record("Ensure", r)
    /\ prev' = last
    /\ calls' = calls + 1
    /\ changed' = FALSE
    /\ UNCHANGED <<bin, world, procs>>

InstallCall ==
    /\ calls < MaxCalls
    /\ LET r == Install(bin, fs, world) IN
        /\ fs' = r.fs
        /\ last' = Record("Install", r)
    /\ prev' = last
    /\ calls' = calls + 1
    /\ changed' = FALSE
    /\ UNCHANGED <<bin, world, procs>>

\* between calls somebody deletes the executable, or the server recovers
ExternalChange ==
    /\ 0 < calls /\ calls < MaxCalls
    /\ ~changed
    /\ \/ /\ IsFile(fs, bin.template.Cmd)
          /\ fs' = Remove(fs, bin.template.Cmd)
          /\ world' = world
       \/ /\ world.http # "ok" \/ world.status # 200 \/ world.copyfail \/ ~world.gook
          /\ world' = [world EXCEPT !.http = "ok", !.status = 200,
                                     !.copyfail = FALSE, !.gook = TRUE]
          /\ fs' = fs
    /\ changed' = TRUE
    /\ UNCHANGED <<bin, calls, last, prev, procs>>

Next == EnsureCall \/ InstallCall \/ ExternalChange

Spec == Init /\ [][Next]_vars

----------------------------------------------------------------------------
(* Template.Resolve on its own: a descriptor's Template and any format *)

\* what a format string is made of: the placeholders, literal text, an action
\* left open and an action naming a field Template does not have
FormatTokens == {p[1] : p \in Placeholders} \cup {"-", UnclosedAction, UndefinedField}

Formats == UNION {[1..n -> FormatTokens] : n \in 0..MaxFormatLen}

\* versions as text to substitute, one of them looking like a placeholder
ResolveVersions == {<<"1">>, <<"v", "1">>, <<"{{.Name}}">>, <<"<", "&", ">">>}

InitResolve ==
    \E command \in Commands, version \in ResolveVersions, goos \in GOOSes,
       goarch \in GOARCHes :
        Start(New(command, version, OriginNone, <<>>, goos, goarch), EmptyFS,
              CHOOSE w \in Worlds(OriginNone) : TRUE)

\* bin.template.Resolve(format); Resolve keeps no state, so one call per
\* behaviour shows all it can do
ResolveCall ==
    /\ last = NoCall
    /\ \E format \in Formats :
           last' = [op |-> "Resolve", format |-> format,
                    s |-> Resolve(bin.template, format).s,
                    ret |-> Resolve(bin.template, format).err]
    /\ UNCHANGED <<bin, fs, world, calls, prev, changed, procs>>

\* bin.template.MustResolve(format)
MustResolveCall ==
    /\ last = NoCall
    /\ \E format \in Formats :
           last' = [op |-> "MustResolve", format |-> format,
                    s |-> MustResolve(bin.template, format).s,
                    panic |-> MustResolve(bin.template, format).panic]
    /\ UNCHANGED <<bin, fs, world, calls, prev, changed, procs>>

NextResolve == ResolveCall \/ MustResolveCall

SpecResolve == InitResolve /\ [][NextResolve]_vars

----------------------------------------------------------------------------
(* Ensure called from two goroutines on one descriptor whose origin is a    *)
(* direct download.  Each goroutine goes through Ensure and                 *)
(* remotebin.Install one system call at a time; nothing in the code keeps   *)
(* the other from running in between.  A copy is taken as one step.         *)

Goroutines == {1, 2}

Entered == [pc |-> "start", observed |-> "nothing", installs |-> 0, wrote |-> FALSE,
            ret |-> Nil]

InitConcurrent ==
    \E command \in Commands, version \in {<<>>, Latest, <<"1">>},
       options \in {<<>>, <<VersionCmdOption(SkipVersionCheck)>>},
       goos \in GOOSes, goarch \in GOARCHes :
        LET b == New(command, version,
                     RemoteBinaryDownload(<<"http://h", Sep, "{{.Name}}", "-", "{{.Version}}">>),
                     options, goos, goarch) IN
        \E f \in InitialFS(b), w \in Worlds(b.origin) :
            /\ w.body \in {Exe(TRUE, <<"1">>), Data("other", <<>>, TRUE)}
            /\ w.status \in {200, 404}
            /\ bin = b /\ fs = f /\ world = w
            /\ calls = 0 /\ last = NoCall /\ prev = NoCall /\ changed = FALSE
            /\ procs = [p \in Goroutines |-> Entered]

At_(p, pc) == procs # <<>> /\ procs[p].pc = pc

Goto(p, pc) == procs' = [procs EXCEPT ![p].pc = pc]

Return(p, err) == procs' = [procs EXCEPT ![p].pc = "done", ![p].ret = err]

\* Ensure: the guard on the version
GoStart(p) ==
    /\ At_(p, "start")
    /\ IF bin.version = <<>>
       THEN Return(p, <<"version must be set">>)
       ELSE Goto(p, "stat")
    /\ UNCHANGED <<bin, fs, world, calls, last, prev, changed>>

\* Ensure: b.isInstalled(), the left side of the &&
GoStat(p) ==
    /\ At_(p, "stat")
    /\ IF isInstalled(bin, fs)
       THEN Goto(p, "version")
       ELSE procs' = [procs EXCEPT ![p].pc = "mkdir", ![p].observed = "absent"]
    /\ UNCHANGED <<bin, fs, world, calls, last, prev, changed>>

\* Ensure: b.isExpectedVersion(), the right side of the &&
GoVersion(p) ==
    /\ At_(p, "version")
    /\ IF isExpectedVersion(bin, fs, world).ok
       THEN procs' = [procs EXCEPT ![p].pc = "done", ![p].observed = "confirmed"]
       ELSE procs' = [procs EXCEPT ![p].pc = "mkdir", ![p].observed = "unconfirmed"]
    /\ UNCHANGED <<bin, fs, world, calls, last, prev, changed>>

\* an Install that looks again before it starts and leaves when the
\* executable has appeared meanwhile
GoMkdirLooksAgain(p) ==
    /\ At_(p, "mkdir")
    /\ IF isInstalled(bin, fs)
       THEN Return(p, Nil) /\ fs' = fs
       ELSE /\ fs' = MkdirAll(fs, bin.template.Directory).fs
            /\ procs' = [procs EXCEPT ![p].pc = "get", ![p].installs = @ + 1]
    /\ UNCHANGED <<bin, world, calls, last, prev, changed>>

\* Install, remotebin.Install: os.MkdirAll
GoMkdir(p) ==
    /\ At_(p, "mkdir")
    /\ fs' = MkdirAll(fs, bin.template.Directory).fs
    /\ IF MkdirAll(fs, bin.template.Directory).err # Nil
       THEN procs' = [procs EXCEPT ![p].pc = "done", ![p].installs = @ + 1,
                                   ![p].ret = MkdirFailed(MkdirAll(fs, bin.template.Directory),
                                                          bin.template).err]
       ELSE procs' = [procs EXCEPT ![p].pc = "get", ![p].installs = @ + 1]
    /\ UNCHANGED <<bin, world, calls, last, prev, changed>>

\* remotebin.Install: Resolve, http.Get and the status check
GoGet(p) ==
    /\ At_(p, "get")
    /\ IF Resolve(bin.template, bin.origin.urlformat).err # Nil
       THEN Return(p, Wrap(<<"failed to resolve URL">>,
                           Resolve(bin.template, bin.origin.urlformat).err))
       ELSE IF world.http # "ok"
       THEN Return(p, Wrap(<<"failed to download binary">>, <<"dial tcp: refused">>))
       ELSE IF world.status < 200 \/ world.status >= 300
       THEN Return(p, <<"received unexpected response when downloading binary: http",
                        Itoa(world.status)>>)
       ELSE Goto(p, "create")
    /\ UNCHANGED <<bin, fs, world, calls, last, prev, changed>>

\* remotebin.Install: os.Create, which empties a file that is there
GoCreate(p) ==
    /\ At_(p, "create")
    /\ fs' = Create(fs, bin.template.Cmd).fs
    /\ IF Create(fs, bin.template.Cmd).err # Nil
       THEN Return(p, Wrap(<<"failed to create output file ">> \o bin.template.Cmd,
                           Create(fs, bin.template.Cmd).err))
       ELSE Goto(p, "chmod")
    /\ UNCHANGED <<bin, world, calls, last, prev, changed>>

\* remotebin.Install: os.Chmod
GoChmod(p) ==
    /\ At_(p, "chmod")
    /\ fs' = Chmod(fs, bin.template.Cmd, ModeExec)
    /\ Goto(p, "copy")
    /\ UNCHANGED <<bin, world, calls, last, prev, changed>>

\* remotebin.Install: io.Copy into the file, and the return
GoCopy(p) ==
    /\ At_(p, "copy")
    /\ fs' = Copy(fs, bin.template.Cmd, world.body, world.copyfail).fs
    /\ procs' = [procs EXCEPT ![p].pc = "done", ![p].wrote = TRUE,
                              ![p].ret = Copy(fs, bin.template.Cmd, world.body,
                                              world.copyfail).err]
    /\ UNCHANGED <<bin, world, calls, last, prev, changed>>

NextConcurrent ==
    \E p \in Goroutines :
        \/ GoStart(p)
        \/ GoStat(p)
        \/ GoVersion(p)
        \/ GoMkdir(p)
        \/ GoGet(p)
        \/ GoCreate(p)
        \/ GoChmod(p)
        \/ GoCopy(p)

SpecConcurrent == InitConcurrent /\ [][NextConcurrent]_vars

----------------------------------------------------------------------------
(* Harness.Execute.  A Task is taken for the error it returns when run; the *)
(* log lists what was run, in order.                                        *)

\* a Harness with its two hooks
Harness(pre, post) == [PreExecHook |-> pre, PostExecHook |-> post]

\* a loop over the tasks that gives up at the first task that fails
RECURSIVE RunTasksUntilError(_, _, _)
RunTasksUntilError(tasks, i, r) ==
    IF i > Len(tasks) \/ r.errs # <<>> THEN r
    ELSE RunTasksUntilError(tasks, i + 1,
                            [errs |-> IF tasks[i] # Nil THEN Append(r.errs, tasks[i])
                                      ELSE r.errs,
                             log  |-> Append(r.log, Ev("task", i))])

\* the loop of Execute over the tasks: each is run, its error collected
RECURSIVE RunTasks(_, _, _)
RunTasks(tasks, i, r) ==
    IF i > Len(tasks) THEN r
    ELSE RunTasks(tasks, i + 1,
                  [errs |-> IF tasks[i] # Nil THEN Append(r.errs, tasks[i]) ELSE r.errs,
                   log  |-> Append(r.log, Ev("task", i))])

\* Execute from the post-exec hook on
ExecuteRan(h, r) ==
    IF h.PostExecHook # Nil
    THEN [ret |-> <<"failed to run post exec hook: ">> \o h.PostExecHook,
          log |-> Append(r.log, Ev("hook", "post"))]
    ELSE IF Len(r.errs) > 0
    THEN [ret |-> <<"task finished with errors">>, log |-> Append(r.log, Ev("hook", "post"))]
    ELSE [ret |-> Nil, log |-> Append(r.log, Ev("hook", "post"))]

\* Harness.Execute
Execute(h, tasks) ==
    IF h.PreExecHook # Nil
    THEN [ret |-> <<"failed to initialize ci harness: ">> \o h.PreExecHook,
          log |-> <<Ev("hook", "pre")>>]
    ELSE ExecuteRan(h, RunTasks(tasks, 1, [errs |-> <<>>, log |-> <<Ev("hook", "pre")>>]))

\* what a task or a hook may return
TaskResults == {Nil, <<"lint failed">>, <<"tests failed">>}

TaskLists == UNION {[1..n -> TaskResults] : n \in 0..MaxTasks}

InitHarness ==
    Start(New(<<"tool">>, Latest, MockOrigin(Nil), <<>>, <<"linux">>, <<"amd64">>),
          EmptyFS, CHOOSE w \in Worlds(OriginNone) : TRUE)

\* h.Execute(ctx, tasks...)
ExecuteCall ==
    /\ last = NoCall
    /\ \E pre \in {Nil, <<"no git">>}, post \in {Nil, <<"no report">>}, tasks \in TaskLists :
           last' = [op |-> "Execute", harness |-> Harness(pre, post), tasks |-> tasks,
                    ret |-> Execute(Harness(pre, post), tasks).ret,
                    log |-> Execute(Harness(pre, post), tasks).log]
    /\ UNCHANGED <<bin, fs, world, calls, prev, changed, procs>>

\* Provision after one more Ensure, whose result is e
Provisioned(r, b, e) ==
    [fs      |-> e.fs,
     ensured |-> Append(r.ensured, b),
     rets    |-> Append(r.rets, e.ret),
     errs    |-> IF e.ret # Nil
                 THEN Append(r.errs, <<"failed to provision ">> \o Name(b) \o <<": ">> \o e.ret)
                 ELSE r.errs]

\* a loop over the binaries that gives up at the first Ensure that fails
RECURSIVE ProvisionEachUntilError(_, _, _, _)
ProvisionEachUntilError(binaries, i, w, r) ==
    IF i > Len(binaries) \/ r.errs # <<>> THEN r
    ELSE ProvisionEachUntilError(binaries, i + 1, w,
                                 Provisioned(r, binaries[i], Ensure(binaries[i], r.fs, w)))

\* the loop of Provision: Ensure on each binary, its error collected
RECURSIVE ProvisionEach(_, _, _, _)
ProvisionEach(binaries, i, w, r) ==
    IF i > Len(binaries) THEN r
    ELSE ProvisionEach(binaries, i + 1, w,
                       Provisioned(r, binaries[i], Ensure(binaries[i], r.fs, w)))

\* the return of the task
ProvisionDone(r) ==
    [fs |-> r.fs, ensured |-> r.ensured, rets |-> r.rets, errs |-> r.errs,
     ret |-> IF Len(r.errs) > 0 THEN <<"provisioning failed">> ELSE Nil]

\* the task made by Provision(binaries...), run
Provision(binaries, f, w) ==
    ProvisionDone(ProvisionEach(binaries, 1, w,
                                [fs |-> f, ensured |-> <<>>, rets |-> <<>>, errs |-> <<>>]))

\* binaries to provision: fine, failing at its origin, and without a version
Provisionable ==
    {New(<<"tool">>, v, o, <<>>, <<"linux">>, <<"amd64">>) :
        v \in {Latest, <<>>},
        o \in {MockOrigin(<<"boom">>), GoBinary(<<"example.com", Sep, "cmd", Sep, "tool">>)}}

BinaryLists == UNION {[1..n -> Provisionable] : n \in 0..MaxBinaries}

\* Provision(binaries...)(ctx)
ProvisionCall ==
    /\ last = NoCall
    /\ \E binaries \in BinaryLists :
           /\ last' = [op |-> "Provision", binaries |-> binaries,
                       ensured |-> Provision(binaries, fs, world).ensured,
                       rets |-> Provision(binaries, fs, world).rets,
                       errs |-> Provision(binaries, fs, world).errs,
                       ret |-> Provision(binaries, fs, world).ret]
           /\ fs' = Provision(binaries, fs, world).fs
    /\ UNCHANGED <<bin, world, calls, prev, changed, procs>>

NextHarness == ExecuteCall \/ ProvisionCall

SpecHarness == InitHarness /\ [][NextHarness]_vars

----------------------------------------------------------------------------
(* New with options: the caller builds one descriptor from a runtime GOOS  *)
(* and a list of options                                                   *)

\* the Go maps from some of the keys to the values
MappingsOver(keys, values) ==
    UNION {{{<<k, m[k]>> : k \in ks} : m \in [ks -> values]} : ks \in SUBSET keys}

GOOSMappings == MappingsOver(GOOSes, {<<"win">>, <<"linux">>})

ArchiveExtensionMappings ==
    MappingsOver(GOOSes \cup {<<"win">>}, {<<".zip">>})

GOOSOption(mapping) == [OptionNone EXCEPT !.opt = "WithGOOSMapping", !.mapping = mapping]

ArchiveExtensionOption(mapping) ==
    [OptionNone EXCEPT !.opt = "WithGOOSArchiveExtensionMapping", !.mapping = mapping]

\* the two options in either order
MappingOptionLists ==
    UNION {{<<GOOSOption(g), ArchiveExtensionOption(e)>>,
            <<ArchiveExtensionOption(e), GOOSOption(g)>>} :
              <<g, e>> \in GOOSMappings \X ArchiveExtensionMappings}

Reverse(s) == [i \in 1..Len(s) |-> s[Len(s) + 1 - i]]

\* binary.New(command, version, origin, options...) where runtime.GOOS is goos
NewCall ==
    /\ last = NoCall
    /\ \E goos \in GOOSes, options \in MappingOptionLists :
           /\ bin' = New(<<"tool">>, Latest, MockOrigin(Nil), options, goos, <<"amd64">>)
           /\ last' = [op |-> "New", goos |-> goos, options |-> options, ret |-> Nil]
    /\ UNCHANGED <<fs, world, calls, prev, changed, procs>>

NextOptions == NewCall

SpecOptions == InitHarness /\ [][NextOptions]_vars

----------------------------------------------------------------------------
(* properties of Binary.Ensure *)

\* the last call was Ensure, made on a descriptor with a version
EnsuredWithVersion == last.op = "Ensure" /\ bin.version # <<>>

\* the executable was at the resolved path when the last call started
WasInstalled == Exists(last.pre, BinPath(bin))

\* the version was confirmed when the last call started
WasConfirmed == isExpectedVersion(bin, last.pre, last.world).ok

\* C1: Ensure on a descriptor whose version is empty returns an error that
\* contains "version must be set" and does nothing else: no stat of the
\* executable, no version-check subprocess, no Origin.Install, and the
\* filesystem is as it was.
C1_EmptyVersionFailsFast ==
    (last.op = "Ensure" /\ bin.version = <<>> /\ ~changed) =>
        /\ Contains(last.ret, <<"version must be set">>)
        /\ last.log = <<>>
        /\ last.installs = <<>>
        /\ last.runs = <<>>
        /\ fs = last.pre

\* an Ensure with an empty version was made where nothing was installed, so
\* that any other descriptor would have gone to its Origin
C1_Witness ==
    /\ last.op = "Ensure" /\ bin.version = <<>> /\ ~changed
    /\ ~WasInstalled
    /\ last.ret # Nil

\* C2: with a non-empty version, when a file exists at the resolved executable
\* path and the version is confirmed, Ensure returns nil and Origin.Install is
\* never invoked.
C2_InstalledAndConfirmedIsNoOp ==
    (EnsuredWithVersion /\ WasInstalled /\ WasConfirmed) =>
        /\ last.ret = Nil
        /\ last.installs = <<>>
        /\ \A i \in 1..Len(last.log) : last.log[i].op # "install"

\* the version check ran, confirmed the version, and Ensure returned nil
C2_Witness ==
    /\ EnsuredWithVersion /\ WasInstalled /\ WasConfirmed
    /\ Len(last.runs) = 1
    /\ last.ret = Nil

\* C3: with a non-empty version, when the executable is absent or the version
\* is not confirmed, one Ensure invokes Origin.Install exactly once, with the
\* descriptor's Template, and returns nil when that install returns nil.
C3_OtherwiseInstallsOnce ==
    (EnsuredWithVersion /\ (~WasInstalled \/ ~WasConfirmed)) =>
        /\ Len(last.installs) = 1
        /\ last.installs[1].template = bin.template
        /\ Cardinality({i \in 1..Len(last.log) : last.log[i].op = "install"}) = 1
        /\ (last.installs[1].ret = Nil => last.ret = Nil)

\* the executable was there with the wrong version and the install succeeded
C3_Witness ==
    /\ EnsuredWithVersion /\ WasInstalled /\ ~WasConfirmed
    /\ Len(last.installs) = 1
    /\ last.installs[1].ret = Nil
    /\ last.ret = Nil

\* the executable was absent and Ensure went to the Origin
C3_WitnessAbsent ==
    /\ EnsuredWithVersion /\ ~WasInstalled
    /\ Len(last.installs) = 1
    /\ last.ret = Nil

\* two Ensure calls in a row with nothing outside changing in between
TwoEnsuresInARow ==
    /\ last.op = "Ensure" /\ prev.op = "Ensure"
    /\ ~last.changed

\* the version can be verified: the check is disabled, or what is upstream
\* runs and prints the requested version
Verifiable ==
    \/ bin.versioncmd = SkipVersionCheck
    \/ /\ world.body.format = "exe" /\ world.body.ok
       /\ Contains(world.body.out, TrimPrefix(bin.version, <<"v">>))

\* C4: Ensure called twice in succession with no external change in between
\* performs at most one real install: when the first call succeeded and the
\* version is verifiable or "latest", the second call never invokes
\* Origin.Install, for all three origins.
C4_SecondEnsureIsNoOp ==
    (/\ TwoEnsuresInARow
     /\ bin.origin.kind \in {"gopkg", "remotebin", "remotearchive"}
     /\ prev.ret = Nil
     /\ (bin.version = Latest \/ Verifiable)) =>
        last.installs = <<>>

\* C5: whenever Ensure returns nil a file exists at BinPath(), for every
\* origin and every entry mapping or package name.
C5_EnsuredMeansPresent ==
    (/\ last.op = "Ensure" /\ last.ret = Nil /\ ~changed
     /\ bin.origin.kind \in {"gopkg", "remotebin", "remotearchive"}) =>
        IsFile(fs, BinPath(bin))

\* C6: isExpectedVersion returns true whenever the requested version is
\* "latest", whatever the version-check command and whatever the subprocess
\* would print or return; the subprocess is not run.
C6_LatestIsConfirmed ==
    bin.version = Latest =>
        /\ isExpectedVersion(bin, fs, world).ok
        /\ isExpectedVersion(bin, fs, world).runs = <<>>
        /\ (last.op = "Ensure" /\ WasInstalled) =>
               /\ last.runs = <<>>
               /\ last.installs = <<>>
               /\ \A i \in 1..Len(last.log) : last.log[i].op # "exec"

\* Ensure met an executable that fails its version command, the version was
\* "latest", and nothing was run or installed
C6_Witness ==
    /\ bin.version = Latest
    /\ bin.versioncmd # SkipVersionCheck
    /\ last.op = "Ensure" /\ WasInstalled
    /\ ~CombinedOutput(last.pre, last.world, Split(bin.versioncmd, " ")).ok
    /\ last.ret = Nil /\ last.installs = <<>>

\* C7: with the version check disabled by WithVersionCmd(SkipVersionCheck),
\* isExpectedVersion returns true without running a subprocess, so Ensure on
\* an existing executable performs no install.
C7_SkippedCheckIsConfirmed ==
    bin.versioncmd = SkipVersionCheck =>
        /\ isExpectedVersion(bin, fs, world).ok
        /\ isExpectedVersion(bin, fs, world).runs = <<>>
        /\ (last.op = "Ensure" /\ WasInstalled) =>
               /\ last.runs = <<>>
               /\ last.installs = <<>>

\* the check was disabled, the version was not "latest", the executable on
\* disk would not have printed the version, and Ensure installed nothing
C7_Witness ==
    /\ bin.versioncmd = SkipVersionCheck
    /\ bin.version # Latest /\ bin.version # <<>>
    /\ last.op = "Ensure" /\ WasInstalled
    /\ IsFile(last.pre, BinPath(bin))
    /\ ~Contains(last.pre[Clean(BinPath(bin))].content.out,
                 TrimPrefix(bin.version, <<"v">>))
    /\ last.ret = Nil /\ last.installs = <<>>

\* the requested version with one leading "v" removed
OneLeadingVRemoved(v) == IF Len(v) > 0 /\ v[1] = "v" THEN Tail(v) ELSE v

\* sub occurs in s as a contiguous run
OccursIn(sub, s) ==
    \E i \in 0..Len(s) : \E j \in i..Len(s) :
        /\ j - i = Len(sub)
        /\ \A k \in 1..Len(sub) : s[i + k] = sub[k]

\* C8: when the version is neither "latest" nor the check disabled,
\* isExpectedVersion returns true if and only if the version-check subprocess
\* exits successfully and its combined output contains the requested version
\* with one leading "v" removed; the output is not altered.
C8_ConfirmedIffOutputContainsVersion ==
    (bin.version # Latest /\ bin.versioncmd # SkipVersionCheck) =>
        LET v == isExpectedVersion(bin, fs, world) IN
        /\ Len(v.runs) = 1
        /\ v.ok <=> (v.runs[1].ok /\ OccursIn(OneLeadingVRemoved(bin.version), v.runs[1].out))
        /\ (EnsuredWithVersion /\ WasInstalled) =>
               /\ Len(last.runs) = 1
               /\ (last.installs = <<>>) <=>
                      (/\ last.runs[1].ok
                       /\ OccursIn(OneLeadingVRemoved(bin.version), last.runs[1].out))

\* version "vv1" against an executable that prints "1": with one "v" removed
\* the target is "v1", which "1" does not contain, so Ensure installed
C8_Witness ==
    /\ bin.version = <<"v", "v", "1">>
    /\ EnsuredWithVersion /\ WasInstalled
    /\ Len(last.runs) = 1
    /\ last.runs[1].ok /\ last.runs[1].out = <<"1">>
    /\ Len(last.installs) = 1

\* version "v1" against an executable that prints "1": confirmed
C8_WitnessConfirmed ==
    /\ bin.version = <<"v", "1">>
    /\ EnsuredWithVersion /\ WasInstalled
    /\ Len(last.runs) = 1
    /\ last.runs[1].ok /\ last.runs[1].out = <<"1">>
    /\ last.installs = <<>>

\* C9: a failure of the version-check subprocess is never returned as an error
\* from Ensure: it counts as "not confirmed", and Ensure then attempts an
\* install through the Origin, whose result is what Ensure returns.
C9_CheckFailureTriggersInstall ==
    (last.op = "Ensure" /\ Len(last.runs) = 1 /\ ~last.runs[1].ok) =>
        /\ Len(last.installs) = 1
        /\ last.ret = last.installs[1].ret

\* the version command failed and the install that followed succeeded
C9_Witness ==
    /\ last.op = "Ensure" /\ Len(last.runs) = 1 /\ ~last.runs[1].ok
    /\ Len(last.installs) = 1
    /\ last.ret = Nil

\* C10 as stated: when Origin.Install returns an error, the error Ensure
\* returns wraps it with context that names the failing binary.
C10_ErrorNamesBinary ==
    (last.op = "Ensure" /\ Len(last.installs) = 1 /\ last.installs[1].ret # Nil) =>
        /\ Contains(last.ret, last.installs[1].ret)
        /\ last.ret # last.installs[1].ret
        /\ Contains(last.ret, Name(bin))

\* C10 amended: when Origin.Install returns an error, Ensure returns that very
\* error, with nothing added to it.
C10_ErrorReturnedAsIs ==
    (last.op = "Ensure" /\ Len(last.installs) = 1 /\ last.installs[1].ret # Nil) =>
        last.ret = last.installs[1].ret

\* an install failed with a message that does not mention the binary
C10_Witness ==
    /\ last.op = "Ensure" /\ Len(last.installs) = 1
    /\ last.installs[1].ret # Nil
    /\ ~Contains(last.installs[1].ret, Name(bin))
    /\ last.ret # Nil

----------------------------------------------------------------------------
(* properties of the Origins *)

\* the origins that install something: go install, direct download, archive
RealOrigin == bin.origin.kind \in {"gopkg", "remotebin", "remotearchive"}

\* the last call reached Origin.Install
Installed == Len(last.installs) = 1

\* what Origin.Install did in the last call: the log after the "install" event
InstallLog ==
    LET i == CHOOSE k \in 1..Len(last.log) : last.log[k].op = "install"
    IN  SubSeq(last.log, i + 1, Len(last.log))

\* the destination directory could not be created when the last call started:
\* the directory or one of its parents was a regular file
DirectoryBlocked ==
    \E a \in Ancestors(bin.template.Directory) :
        a \in DOMAIN last.pre /\ last.pre[a].kind = "file"

\* C11: in every Origin, Install creates the destination directory before any
\* HTTP request or subprocess; when creating it fails, Install returns an error
\* and makes no HTTP request, starts no subprocess and writes no file.
C11_DirectoryFirst ==
    (Installed /\ RealOrigin) =>
        /\ Len(InstallLog) >= 1
        /\ InstallLog[1] = Ev("mkdir", bin.template.Directory)
        /\ DirectoryBlocked =>
               /\ last.installs[1].ret # Nil
               /\ Len(InstallLog) = 1
               /\ fs = last.pre

\* a direct download met a regular file where its directory should be, with
\* the server in order, and failed
C11_Witness ==
    /\ last.op = "Install" /\ bin.origin.kind = "remotebin"
    /\ DirectoryBlocked
    /\ last.world.http = "ok" /\ last.world.status = 200
    /\ last.ret # Nil
    /\ ~changed

\* what is at path p in filesystem f: <<>> when nothing is, else <<the file>>
At(f, p) == IF Clean(p) \in DOMAIN f THEN <<f[Clean(p)]>> ELSE <<>>

\* the server answered the last call, with a status outside 200-299
AnsweredNon2xx ==
    /\ last.world.http = "ok"
    /\ last.world.status \notin 200..299

\* C12: a direct download fails whenever the response status is outside
\* 200-299, and the file at the target executable path is then neither created
\* nor modified: an executable installed before keeps its content.
C12_Non2xxFailsAndKeepsTarget ==
    (Installed /\ bin.origin.kind = "remotebin" /\ AnsweredNon2xx /\ ~changed) =>
        /\ last.installs[1].ret # Nil
        /\ At(fs, BinPath(bin)) = At(last.pre, BinPath(bin))
        /\ \A i \in 1..Len(InstallLog) : InstallLog[i].op \notin {"create", "write"}

\* an executable was in place, the server answered 404, and the executable is
\* still what it was
C12_Witness ==
    /\ last.op = "Install" /\ bin.origin.kind = "remotebin" /\ ~changed
    /\ last.world.http = "ok" /\ last.world.status = 404
    /\ IsFile(last.pre, BinPath(bin))
    /\ last.ret # Nil
    /\ At(fs, BinPath(bin)) = At(last.pre, BinPath(bin))

\* a status just outside the range on either side fails as well
C12_WitnessEdges ==
    /\ last.op = "Install" /\ bin.origin.kind = "remotebin" /\ ~changed
    /\ last.world.http = "ok" /\ last.world.status \in {199, 300}
    /\ ~DirectoryBlocked
    /\ last.ret # Nil

\* the paths Origin.Install wrote data to in the last call
Written == {InstallLog[i].arg : i \in {k \in 1..Len(InstallLog) : InstallLog[k].op = "write"}}

C13_WitnessDirect ==
    /\ last.op = "Install" /\ bin.origin.kind = "remotebin" /\ ~changed
    /\ last.ret = Nil
    /\ IsFile(last.pre, BinPath(bin))
    /\ last.pre[Clean(BinPath(bin))].mode = ModeDefault
    /\ fs[Clean(BinPath(bin))].mode = ModeExec

\* an event op on path p is in the log of the last Origin.Install
Did(op, p) == \E i \in 1..Len(InstallLog) : InstallLog[i] = Ev(op, p)

\* some HTTP request was made by the last Origin.Install
Requested == \E i \in 1..Len(InstallLog) : InstallLog[i].op = "get"

\* C14: an archive download issues no HTTP request when a file named after
\* the resolved URL's basename already exists in the destination directory; it
\* goes straight to extracting that file.
C14_ExistingArchiveSkipsDownload ==
    (/\ Installed /\ bin.origin.kind = "remotearchive"
     /\ Exists(last.pre, ArchivePath(bin))) =>
        /\ ~Requested
        /\ Did("open", ArchivePath(bin))
        /\ ~Did("write", ArchivePath(bin))

\* the archive was there, the server was unreachable, and the install
\* succeeded all the same
C14_Witness ==
    /\ last.op = "Install" /\ bin.origin.kind = "remotearchive"
    /\ IsFile(last.pre, ArchivePath(bin))
    /\ last.pre[Clean(ArchivePath(bin))].content = CachedArchive
    /\ last.world.http # "ok"
    /\ last.ret = Nil

\* C15: every outbound download, the archive download included, needs a 2xx
\* status to proceed: on any other status the install fails at the download
\* step, and the response body is neither written to the target or archive
\* file nor handed to extraction.
C15_Non2xxStopsEveryDownload ==
    (/\ Installed /\ bin.origin.kind \in {"remotebin", "remotearchive"}
     /\ Requested /\ AnsweredNon2xx) =>
        /\ last.installs[1].ret # Nil
        /\ \A i \in 1..Len(InstallLog) : InstallLog[i].op \notin {"write", "open"}
        /\ bin.origin.kind = "remotearchive" =>
               HasPrefix(last.installs[1].ret, <<"failed to download file">>)

\* the archive the last Origin.Install extracted: the one already in the
\* destination directory, else the one the server sent
Extracted ==
    IF IsFile(last.pre, ArchivePath(bin))
    THEN last.pre[Clean(ArchivePath(bin))].content
    ELSE last.world.body

\* the entries of that archive of the given type
EntriesOf(type) ==
    {Extracted.entries[i] : i \in {k \in 1..Len(Extracted.entries) :
                                      Extracted.entries[k].type = type}}

\* the origin's mapping with keys and values resolved against the Template
Resolved ==
    {<<Resolve(bin.template, kv[1]).s, Resolve(bin.template, kv[2]).s>> :
        kv \in bin.origin.binaries}

\* where an entry belongs under the destination: <<>> when it is left out
PlaceOf(e) ==
    IF Resolved = {} THEN <<Join(bin.template.Directory, e.name)>>
    ELSE IF \E kv \in Resolved : kv[1] = e.name
    THEN <<Join(bin.template.Directory, (CHOOSE kv \in Resolved : kv[1] = e.name)[2])>>
    ELSE <<>>

\* the places of all the entries that are kept
Places(es) == {PlaceOf(e)[1] : e \in {x \in es : PlaceOf(x) # <<>>}}

\* the last call was an archive install that succeeded, and nothing changed
\* since
ArchiveInstalled ==
    /\ Installed /\ bin.origin.kind = "remotearchive"
    /\ last.installs[1].ret = Nil /\ ~changed

C16_WitnessUnmapped ==
    /\ ArchiveInstalled /\ last.op = "Install"
    /\ Extracted.format = "gzip"
    /\ Resolved = {}
    /\ IsFile(fs, <<"bin", Sep, "pkg", Sep, "tool">>)
    /\ IsFile(fs, <<"bin", Sep, "README">>)

\* an entry was written under a name that differs from its own
C16_WitnessRenamed ==
    /\ ArchiveInstalled
    /\ Resolved = {<<<<"pkg", Sep, "tool">>, <<"renamed">>>>}
    /\ IsFile(fs, <<"bin", Sep, "renamed">>)
    /\ ~Exists(fs, <<"bin", Sep, "pkg", Sep, "tool">>)

\* the last Origin.Install got as far as extracting the archive
ExtractionRan == Installed /\ bin.origin.kind = "remotearchive" /\ Did("open", ArchivePath(bin))

\* C17: extraction of a file whose sniffed content type is neither gzip nor
\* zip returns an "unsupported format" error and writes nothing: no file or
\* directory is created, modified or removed by that call.
C17_UnsupportedFormatWritesNothing ==
    (ExtractionRan /\ Extracted.format \notin {"gzip", "zip"} /\ ~changed) =>
        /\ HasPrefix(last.installs[1].ret, <<"unsupported format: ">>)
        /\ IsFile(fs, ArchivePath(bin))
        /\ fs[Clean(ArchivePath(bin))].content = Extracted
        /\ \A p \in DOMAIN last.pre : p \in DOMAIN fs /\ fs[p] = last.pre[p]
        /\ DOMAIN fs \ DOMAIN last.pre
               \subseteq Ancestors(bin.template.Directory) \cup {Clean(ArchivePath(bin))}
        /\ ~Did("remove", ArchivePath(bin))

\* C18: after a fully successful extraction the source archive no longer
\* exists in the destination directory: a successful archive install leaves
\* no archive file behind.
C18_ArchiveGoneAfterSuccess ==
    ArchiveInstalled =>
        /\ ~Exists(fs, ArchivePath(bin))
        /\ Did("remove", ArchivePath(bin))

\* the archive was downloaded, entries were extracted from it, and it is gone
C18_Witness ==
    /\ ArchiveInstalled /\ last.op = "Install"
    /\ Did("write", ArchivePath(bin))
    /\ Written \ {ArchivePath(bin)} # {}
    /\ ~Exists(fs, ArchivePath(bin))

\* C19: when extraction fails, on an unsupported format, a decompression
\* error or an entry write error, the source archive is still at its path
\* after extract returns.
C19_ArchiveKeptAfterFailure ==
    (ExtractionRan /\ last.installs[1].ret # Nil /\ ~changed) =>
        IsFile(fs, ArchivePath(bin))

----------------------------------------------------------------------------
(* properties of Template.Resolve *)

\* the format names only fields that Template has, in well-formed actions
OnlyDefinedFields(format) ==
    \A i \in 1..Len(format) :
        format[i] \in {p[1] : p \in Placeholders} \cup {"-"}

\* the pieces of a format after substitution: the field's value for a
\* placeholder, the token itself for anything else
Pieces(t, format) ==
    [i \in 1..Len(format) |->
        IF \E p \in Placeholders : p[1] = format[i]
        THEN t[(CHOOSE p \in Placeholders : p[1] = format[i])[2]]
        ELSE <<format[i]>>]

RECURSIVE Concat(_)
Concat(ss) == IF Len(ss) = 0 THEN <<>> ELSE Head(ss) \o Concat(Tail(ss))

\* C20: for every Template and every format string that references only
\* fields defined on Template, Resolve returns a nil error and the format
\* string with each placeholder replaced by the field's value and all other
\* text unchanged.
C20_ResolveSubstitutesExactly ==
    (last.op = "Resolve" /\ OnlyDefinedFields(last.format)) =>
        /\ last.ret = Nil
        /\ last.s = Concat(Pieces(bin.template, last.format))

\* "{{.GOOS}}-{{.GOARCH}}" on linux/amd64 gave "linux-amd64"
C20_Witness ==
    /\ last.op = "Resolve"
    /\ last.format = <<"{{.GOOS}}", "-", "{{.GOARCH}}">>
    /\ bin.template.GOOS = <<"linux">>
    /\ last.ret = Nil
    /\ last.s = <<"linux", "-", "amd64">>

\* a value that looks like a placeholder is substituted as it is, once
C20_WitnessVerbatim ==
    /\ last.op = "Resolve"
    /\ last.format = <<"{{.Version}}", "-", "{{.Name}}">>
    /\ bin.template.Version = <<"{{.Name}}">>
    /\ last.s = <<"{{.Name}}", "-", "tool">>

\* C21: Resolve on a format that names a field Template does not have, or
\* that has an unterminated placeholder, returns a non-nil error together with
\* the empty string, never a partly substituted string; MustResolve panics in
\* exactly those cases and otherwise returns what Resolve returns.
C21_ResolveFailsWhole ==
    /\ (last.op = "Resolve" /\ ~OnlyDefinedFields(last.format)) =>
           /\ last.ret # Nil
           /\ last.s = <<>>
    /\ last.op = "MustResolve" =>
           /\ last.panic <=> ~OnlyDefinedFields(last.format)
           /\ ~last.panic =>
                  /\ Resolve(bin.template, last.format).err = Nil
                  /\ last.s = Resolve(bin.template, last.format).s

\* an undefined field after text that could have been substituted: Resolve
\* returned the error and nothing of "linux-"
C21_Witness ==
    /\ last.op = "Resolve"
    /\ last.format = <<"{{.GOOS}}", "-", UndefinedField>>
    /\ last.ret # Nil
    /\ last.s = <<>>

\* MustResolve panicked on an unterminated placeholder
C21_WitnessPanic ==
    /\ last.op = "MustResolve"
    /\ last.format = <<"{{.Name}}", UnclosedAction>>
    /\ last.panic

\* MustResolve returned the resolved string
C21_WitnessReturns ==
    /\ last.op = "MustResolve"
    /\ last.format = <<"{{.Name}}", "-", "{{.Version}}">>
    /\ ~last.panic
    /\ last.s = <<"tool", "-">> \o bin.template.Version

\* how many events of the given kind the last Origin.Install logged
Count(op) == Cardinality({i \in 1..Len(InstallLog) : InstallLog[i].op = op})

\* the server could not be reached in the last call
Unreachable == last.world.http # "ok"

\* the archive handed to extraction could not be read to its end or is in no
\* format extract knows
Unreadable == ~Extracted.whole \/ Extracted.format \notin {"gzip", "zip"}

\* C25: no retries inside an install: one Install of a download-based origin
\* issues at most one HTTP GET and at most one extraction, and a failed HTTP
\* call or extraction makes it return an error without a second attempt.
C25_NoRetries ==
    (Installed /\ bin.origin.kind \in {"remotebin", "remotearchive"}) =>
        /\ Count("get") <= 1
        /\ Count("open") <= 1
        /\ (Requested /\ Unreachable) =>
               /\ last.installs[1].ret # Nil
               /\ Count("get") = 1
               /\ Count("open") = 0
        /\ (ExtractionRan /\ Unreadable) =>
               /\ last.installs[1].ret # Nil
               /\ Count("open") = 1

\* the one request of an archive install failed and the install gave up
C25_Witness ==
    /\ last.op = "Install" /\ bin.origin.kind = "remotearchive"
    /\ Requested /\ Unreachable
    /\ Count("get") = 1
    /\ last.ret # Nil

\* the one extraction of an archive install failed and the install gave up
C25_WitnessExtraction ==
    /\ last.op = "Install" /\ bin.origin.kind = "remotearchive"
    /\ ExtractionRan /\ Unreadable
    /\ Count("get") = 1 /\ Count("open") = 1
    /\ last.ret # Nil

\* the entries of the extracted archive that the mapping keeps, in archive
\* order
KeptEntries == SelectSeq(Extracted.entries, LAMBDA e : PlaceOf(e) # <<>>)

\* how many entries extraction started on: each begins with one os.MkdirAll,
\* and Install made the destination directory before
Attempted == Count("mkdir") - 1

\* the entry is at its place as the archive has it
InPlace(e) ==
    IF e.type = "dir" THEN IsDir(fs, PlaceOf(e)[1])
    ELSE /\ IsFile(fs, PlaceOf(e)[1])
         /\ fs[Clean(PlaceOf(e)[1])].content = e.content

\* nothing was done at the entry's place
Untouched(e) ==
    /\ ~Did("create", PlaceOf(e)[1]) /\ ~Did("write", PlaceOf(e)[1])
    /\ At(fs, PlaceOf(e)[1]) = At(last.pre, PlaceOf(e)[1])

\* the error of the last Origin.Install is one of an entry write
EntryError ==
    \/ HasPrefix(last.installs[1].ret, <<"failed to create directory ">>)
    \/ HasPrefix(last.installs[1].ret, <<"failed to create file ">>)
    \/ HasPrefix(last.installs[1].ret, <<"failed to copy data to file ">>)

\* C26: during extraction the first entry whose directory creation, file
\* creation or content copy fails aborts the whole operation with an error:
\* no entry after it in archive order is written, and the entries written
\* before it are left in place.
C26_FirstFailingEntryAborts ==
    (ExtractionRan /\ ~Unreadable /\ ~changed) =>
        /\ Attempted <= Len(KeptEntries)
        /\ (\E i \in 1..Len(KeptEntries) : KeptEntries[i].broken) =>
               last.installs[1].ret # Nil
        /\ last.installs[1].ret = Nil =>
               /\ Attempted = Len(KeptEntries)
               /\ \A i \in 1..Len(KeptEntries) : InPlace(KeptEntries[i])
        /\ last.installs[1].ret # Nil =>
               /\ EntryError
               /\ Attempted >= 1
               /\ KeptEntries[Attempted].broken \/ ~InPlace(KeptEntries[Attempted])
               /\ \A i \in 1..(Attempted - 1) : InPlace(KeptEntries[i])
               /\ \A i \in (Attempted + 1)..Len(KeptEntries) : Untouched(KeptEntries[i])

\* the copy of the second of three entries failed: the first is in place and
\* the third was never written
C26_Witness ==
    /\ ExtractionRan /\ ~Unreadable /\ ~changed
    /\ HasPrefix(last.installs[1].ret, <<"failed to copy data to file ">>)
    /\ Len(KeptEntries) = 3 /\ Attempted = 2
    /\ InPlace(KeptEntries[1])
    /\ ~Exists(fs, PlaceOf(KeptEntries[3])[1])

\* the second entry needed a directory where the first had put a file
C26_WitnessDirectory ==
    /\ ExtractionRan /\ ~Unreadable /\ ~changed
    /\ HasPrefix(last.installs[1].ret, <<"failed to create directory ">>)
    /\ Len(KeptEntries) = 3 /\ Attempted = 2
    /\ InPlace(KeptEntries[1])
    /\ ~Exists(fs, PlaceOf(KeptEntries[3])[1])

\* the second entry was a file where the first had made a directory
C26_WitnessFile ==
    /\ ExtractionRan /\ ~Unreadable /\ ~changed
    /\ HasPrefix(last.installs[1].ret, <<"failed to create file ">>)
    /\ Len(KeptEntries) = 3 /\ Attempted = 2
    /\ InPlace(KeptEntries[1])
    /\ ~Exists(fs, PlaceOf(KeptEntries[3])[1])

\* the cleaned path is the destination directory or below it
Inside(c) ==
    \/ c = Clean(bin.template.Directory)
    \/ HasPrefix(c, Clean(bin.template.Directory) \o <<Sep>>)

\* C27: every file or directory that extraction creates lies inside the
\* destination directory, for every archive entry path, also one with ".."
\* components, and every output name returned by the selector.
C27_ExtractionStaysInside ==
    (ExtractionRan /\ ~changed) =>
        /\ \A c \in DOMAIN fs \ DOMAIN last.pre : Inside(c)
        /\ \A p \in Written : Inside(Clean(p))

\* the call before the last one ran Origin.Install, which failed
FailedBefore == Len(prev.installs) = 1 /\ prev.installs[1].ret # Nil

\* the call before the last one wrote to the given path
WroteBefore(p) == \E i \in 1..Len(prev.log) : prev.log[i] = Ev("write", p)

\* C28: if a direct-download Install returns an error, the next Ensure on the
\* same descriptor invokes Origin.Install again, for every requested version
\* including "latest" and with the version check disabled: a failed install
\* leaves no file at the executable path that Ensure accepts as installed.
C28_FailedInstallIsRetried ==
    (/\ last.op = "Ensure" /\ bin.origin.kind = "remotebin"
     /\ FailedBefore
     /\ ~Exists(prev.pre, bin.template.Cmd)) =>
        Len(last.installs) = 1

\* C29: a file left at the archive path by a download that failed while
\* copying the response body is not a cache hit: the next archive Install on
\* the same URL issues a new HTTP GET instead of extracting the leftover.
C29_LeftoverIsNotACacheHit ==
    (/\ Installed /\ bin.origin.kind = "remotearchive"
     /\ FailedBefore
     /\ HasPrefix(prev.installs[1].ret, <<"failed to download file">>)
     /\ WroteBefore(ArchivePath(bin))) =>
        Requested

----------------------------------------------------------------------------
(* properties of New *)

\* the descriptor New builds from the options of the last call in the
\* opposite order
Swapped ==
    New(bin.command, bin.version, bin.origin, Reverse(last.options), last.goos,
        <<"amd64">>)

\* C30: the Template produced by New does not depend on the order of the
\* options: for every runtime GOOS and every pair of mappings, WithGOOSMapping
\* then WithGOOSArchiveExtensionMapping yields the same GOOS and
\* ArchiveExtension as the opposite order.
C30_OptionOrderIrrelevant ==
    last.op = "New" =>
        /\ bin.template.GOOS = Swapped.template.GOOS
        /\ bin.template.ArchiveExtension = Swapped.template.ArchiveExtension

----------------------------------------------------------------------------
(* properties of concurrent Ensure calls *)

\* C22: two concurrent first-time Ensure calls on one descriptor are not
\* race-free.  Nothing makes a goroutine look again once it has seen the
\* executable missing: each such goroutine invokes Origin.Install, whatever
\* the other has written meanwhile, so in the interleaving where both look
\* before either writes, both install and both write the same file.
C22_BothMayInstall ==
    \A p \in Goroutines :
        (procs[p].pc = "done" /\ procs[p].observed = "absent") =>
            /\ procs[p].installs = 1
            /\ (procs[p].ret = Nil => procs[p].wrote)

\* both goroutines saw the executable missing, both invoked Origin.Install,
\* and both wrote the destination file
C22_Witness ==
    /\ \A p \in Goroutines :
           /\ procs[p].pc = "done"
           /\ procs[p].observed = "absent"
           /\ procs[p].installs = 1
           /\ procs[p].wrote
           /\ procs[p].ret = Nil
    /\ IsFile(fs, BinPath(bin))

----------------------------------------------------------------------------
(* properties of Harness.Execute *)

\* C23: when the pre-exec hook succeeds, Execute runs every given task exactly
\* once, in argument order, even when earlier tasks return errors, then runs
\* the post-exec hook, and returns a non-nil error if any task failed; when
\* the pre-exec hook fails no task and no post-exec hook is run.
C23_ExecuteRunsEveryTaskInOrder ==
    last.op = "Execute" =>
        IF last.harness.PreExecHook = Nil
        THEN /\ Len(last.log) = Len(last.tasks) + 2
             /\ last.log[1] = Ev("hook", "pre")
             /\ \A i \in 1..Len(last.tasks) : last.log[i + 1] = Ev("task", i)
             /\ last.log[Len(last.log)] = Ev("hook", "post")
             /\ (\E i \in 1..Len(last.tasks) : last.tasks[i] # Nil) => last.ret # Nil
        ELSE /\ last.log = <<Ev("hook", "pre")>>
             /\ last.ret # Nil

\* the first of three tasks failed, the other two were run all the same, and
\* Execute returned an error
C23_Witness ==
    /\ last.op = "Execute"
    /\ last.harness = Harness(Nil, Nil)
    /\ Len(last.tasks) = 3
    /\ last.tasks[1] # Nil /\ last.tasks[2] = Nil /\ last.tasks[3] = Nil
    /\ last.log = <<Ev("hook", "pre"), Ev("task", 1), Ev("task", 2), Ev("task", 3),
                    Ev("hook", "post")>>
    /\ last.ret = <<"task finished with errors">>

\* the pre-exec hook failed and nothing else was run
C23_WitnessPreFails ==
    /\ last.op = "Execute"
    /\ last.harness.PreExecHook # Nil
    /\ Len(last.tasks) > 0
    /\ last.log = <<Ev("hook", "pre")>>
    /\ last.ret # Nil

\* C24: the Provision task calls Ensure on every given binary, in order,
\* going on after a binary fails, and returns a non-nil error, "provisioning
\* failed", if and only if at least one Ensure call returned an error.
C24_ProvisionEnsuresAll ==
    last.op = "Provision" =>
        /\ last.ensured = last.binaries
        /\ Len(last.rets) = Len(last.binaries)
        /\ last.ret # Nil <=> \E i \in 1..Len(last.rets) : last.rets[i] # Nil
        /\ last.ret # Nil => last.ret = <<"provisioning failed">>

\* the first binary failed at its origin, the second was installed all the
\* same, and the task reported the failure
C24_Witness ==
    /\ last.op = "Provision"
    /\ Len(last.binaries) = 2
    /\ last.rets[1] = <<"boom">>
    /\ last.rets[2] = Nil
    /\ IsFile(fs, BinPath(last.binaries[2]))
    /\ last.ret = <<"provisioning failed">>
    /\ last.errs = <<<<"failed to provision ", "tool", ": ", "boom">>>>

\* every Ensure succeeded and the task returned nil
C24_WitnessAllGood ==
    /\ last.op = "Provision"
    /\ Len(last.binaries) = 2
    /\ \A i \in 1..2 : last.rets[i] = Nil
    /\ last.ret = Nil

====
